---- MODULE Spec2Model ----
(***************************************************************************)
(* SceneForge client core: the persisted application store (projects,      *)
(* frames, selection, generation flags) and the generation workflow        *)
(* (useGenerator.generate / regenerateFrame / pollGenerationJob).          *)
(***************************************************************************)
EXTENDS Integers, Sequences, FiniteSets, TLC

VARIABLES
    now,                \* the wall clock read by Date.now()
    demoMode,           \* store: demoMode
    currentProject,     \* store: currentProject (a project record or Null)
    projects,           \* store: projects (a sequence of project records)
    selectedFrameId,    \* store: selectedFrameId (a frame id or NullId)
    isGenerating,       \* store: isGenerating
    generationProgress, \* store: generationProgress (a record or Null)
    demoProject,        \* mockData.demoProject, built once when the module loads
    hookProject,        \* currentProject captured by the memoized generate callback
    gen,                \* the generate invocation of the SceneForm hook
    regen,              \* the regenerateFrame invocation of the JsonEditor hook
    timers,             \* pending delayed-cleanup timers of generate
    budget,             \* user events still to come in this run
    last                \* the last operation called, its argument and its result

vars == <<now, demoMode, currentProject, projects, selectedFrameId, isGenerating,
          generationProgress, demoProject, hookProject, gen, regen, timers,
          budget, last>>

storeVars == <<demoMode, currentProject, projects, selectedFrameId, isGenerating,
               generationProgress>>

flowVars == <<gen, regen, timers>>

----------------------------------------------------------------------------
(* Bounds of the model *)

MaxClock == 2
MaxOps == 2
MaxStoreOps == 4
MaxPick == 2
MaxPending == 1
MaxGen == 2

----------------------------------------------------------------------------
(* Values *)

Null == [null |-> TRUE]
NullId == "null"
Undefined == "undefined"
Missing == -1

Names == {"Chase"}
Prompts == {"A noir chase"}

Range(s) == {s[i] : i \in 1..Len(s)}

Max(a, b) == IF a > b THEN a ELSE b
Min(a, b) == IF a < b THEN a ELSE b

defaultParams ==
    [fov |-> 50, lighting |-> 60, hdrBloom |-> 30, colorTemp |-> 5500,
     contrast |-> 50, cameraAngle |-> "eye-level", composition |-> "rule-of-thirds"]

\* parameter sets at and beyond the ends of the sliders' ranges
LowParams == [defaultParams EXCEPT !.fov = 20, !.lighting = 4, !.hdrBloom = 2]
HighParams == [defaultParams EXCEPT !.fov = 125, !.lighting = 97, !.hdrBloom = 99]
ParamSets == {defaultParams, LowParams, HighParams}

generationStepsLength == 7
frameCount == 6

\* Math.random() scaled to an integer range 0..n-1, as a seeded generator:
\* the seed is chosen by the environment, the k-th draw is a function of it.
Seeds == {0, 1}
Random(seed, k, n) == IF seed = 0 THEN 0 ELSE ((k * 7 + 3) * (n - 1)) % n

ProjectId(t) == "project-" \o ToString(t)
FrameId(t, i) == "frame-" \o ToString(t) \o "-" \o ToString(i)

generateMockFrames(count, t, seed) ==
    [k \in 1..count |->
        [id |-> FrameId(t, k - 1),
         imageUrl |-> "demo-image-" \o ToString((k - 1) % 6),
         prompt |-> "sample-prompt-" \o ToString((k - 1) % 6),
         params |-> [defaultParams EXCEPT
                        !.fov = 24 + Random(seed, 3 * k, 96),
                        !.lighting = 30 + Random(seed, 3 * k + 1, 70),
                        !.hdrBloom = 10 + Random(seed, 3 * k + 2, 60)],
         timestamp |-> t + (k - 1) * 1000,
         notes |-> IF k = 1 THEN "Opening shot - establish mood" ELSE Undefined]]

MakeDemoProject(t, seed) ==
    [id |-> "demo-project-1",
     backendId |-> "demo-backend-uuid-1234",
     name |-> "Neon Noir Chase",
     description |-> "A tense noir chase",
     genre |-> "noir",
     frames |-> generateMockFrames(6, t, seed),
     createdAt |-> t - 1,
     updatedAt |-> t]

----------------------------------------------------------------------------
(* The store: each operation is a function of the store state S, a record   *)
(* of currentProject, projects and selectedFrameId, as zustand's set(...)   *)
(* applies it in one state transition.                                      *)

Store == [currentProject |-> currentProject, projects |-> projects,
          selectedFrameId |-> selectedFrameId]

Commit(S) ==
    /\ currentProject' = S.currentProject
    /\ projects' = S.projects
    /\ selectedFrameId' = S.selectedFrameId

ReplaceProject(ps, project) ==
    [i \in 1..Len(ps) |-> IF ps[i].id = project.id THEN project ELSE ps[i]]

setCurrentProject(S, project) == [S EXCEPT !.currentProject = project]

setSelectedFrameId(S, id) == [S EXCEPT !.selectedFrameId = id]

addProject(S, project) == [S EXCEPT !.projects = Append(@, project)]

\* an updateProject that makes its argument the current project in any case
updateProjectAlwaysCurrent(S, project) ==
    [S EXCEPT !.projects = ReplaceProject(@, project),
              !.currentProject = project]

updateProject(S, project) ==
    [S EXCEPT !.projects = ReplaceProject(@, project),
              !.currentProject =
                  IF S.currentProject # Null /\ S.currentProject.id = project.id
                  THEN project ELSE S.currentProject]

deleteProject(S, id) ==
    [S EXCEPT !.projects = SelectSeq(@, LAMBDA p : p.id # id),
              !.currentProject =
                  IF S.currentProject # Null /\ S.currentProject.id = id
                  THEN Null ELSE S.currentProject]

\* createProject reads the clock three times: t1 for the id, t2 for createdAt,
\* t3 for updatedAt.
NewProject(name, description, genre, t1, t2, t3) ==
    [id |-> ProjectId(t1),
     backendId |-> Undefined,
     name |-> name,
     description |-> description,
     genre |-> genre,
     frames |-> <<>>,
     createdAt |-> t2,
     updatedAt |-> t3]

createProject(S, name, description, genre, t1, t2, t3) ==
    addProject(S, NewProject(name, description, genre, t1, t2, t3))

\* a write-back that forgets the project list
WriteBackCurrentOnly(S, updatedProject) ==
    [S EXCEPT !.currentProject = updatedProject]

WriteBack(S, updatedProject) ==
    [S EXCEPT !.currentProject = updatedProject,
              !.projects = ReplaceProject(@, updatedProject)]

\* an addFrame that puts the new frame first
addFramePrepend(S, frame, t) ==
    IF S.currentProject = Null THEN S
    ELSE WriteBack(S, [S.currentProject EXCEPT
                          !.frames = <<frame>> \o @, !.updatedAt = t])

addFrame(S, frame, t) ==
    IF S.currentProject = Null THEN S
    ELSE WriteBack(S, [S.currentProject EXCEPT
                          !.frames = Append(@, frame), !.updatedAt = t])

\* an update that stamps the project with its creation time
updateFrameStaleStamp(S, frame, t) ==
    IF S.currentProject = Null THEN S
    ELSE WriteBack(S, [S.currentProject EXCEPT
                          !.frames = [i \in 1..Len(@) |->
                                         IF @[i].id = frame.id THEN frame ELSE @[i]],
                          !.updatedAt = S.currentProject.createdAt])

updateFrame(S, frame, t) ==
    IF S.currentProject = Null THEN S
    ELSE WriteBack(S, [S.currentProject EXCEPT
                          !.frames = [i \in 1..Len(@) |->
                                         IF @[i].id = frame.id THEN frame ELSE @[i]],
                          !.updatedAt = t])

\* a delete that leaves the selection alone
deleteFrameKeepSelection(S, id, t) ==
    IF S.currentProject = Null THEN S
    ELSE WriteBack(S, [S.currentProject EXCEPT
                          !.frames = SelectSeq(@, LAMBDA f : f.id # id),
                          !.updatedAt = t])

deleteFrame(S, id, t) ==
    IF S.currentProject = Null THEN S
    ELSE [WriteBack(S, [S.currentProject EXCEPT
                           !.frames = SelectSeq(@, LAMBDA f : f.id # id),
                           !.updatedAt = t])
            EXCEPT !.selectedFrameId =
                       IF S.selectedFrameId = id THEN NullId ELSE S.selectedFrameId]

\* a reorderFrames that drops the selection when no project is open
reorderFramesDropsSelection(S, frames, t) ==
    IF S.currentProject = Null THEN [S EXCEPT !.selectedFrameId = NullId]
    ELSE WriteBack(S, [S.currentProject EXCEPT !.frames = frames, !.updatedAt = t])

reorderFrames(S, frames, t) ==
    IF S.currentProject = Null THEN S
    ELSE WriteBack(S, [S.currentProject EXCEPT !.frames = frames, !.updatedAt = t])

----------------------------------------------------------------------------
(* Persistence (zustand persist): partialize keeps demoMode and projects,   *)
(* JSON.stringify drops the keys whose value is undefined, JSON.parse gives *)
(* objects on which a dropped key reads as undefined again, and the         *)
(* persisted part is merged over the initial state when the store is built. *)

stringifyFrame(f) ==
    IF f.notes = Undefined THEN [k \in (DOMAIN f) \ {"notes"} |-> f[k]] ELSE f

stringifyProject(p) ==
    LET q == [p EXCEPT !.frames = [i \in 1..Len(@) |-> stringifyFrame(@[i])]]
    IN  IF q.backendId = Undefined
        THEN [k \in (DOMAIN q) \ {"backendId"} |-> q[k]] ELSE q

parseFrame(j) ==
    [k \in (DOMAIN j) \cup {"notes"} |->
        IF k \in DOMAIN j THEN j[k] ELSE Undefined]

parseProject(j) ==
    LET q == [k \in (DOMAIN j) \cup {"backendId"} |->
                 IF k \in DOMAIN j THEN j[k] ELSE Undefined]
    IN  [q EXCEPT !.frames = [i \in 1..Len(@) |-> parseFrame(@[i])]]

partialize(dm, ps) ==
    [demoMode |-> dm, projects |-> [i \in 1..Len(ps) |-> stringifyProject(ps[i])]]

\* a merge that also restores the open project from the project list
hydrateReopen(stored) ==
    LET ps == [i \in 1..Len(stored.projects) |-> parseProject(stored.projects[i])]
    IN  [demoMode |-> stored.demoMode,
         projects |-> ps,
         currentProject |-> IF ps = <<>> THEN Null ELSE ps[1],
         selectedFrameId |-> NullId,
         isGenerating |-> FALSE,
         generationProgress |-> Null]

hydrate(stored) ==
    [demoMode |-> stored.demoMode,
     projects |-> [i \in 1..Len(stored.projects) |-> parseProject(stored.projects[i])],
     currentProject |-> Null,
     selectedFrameId |-> NullId,
     isGenerating |-> FALSE,
     generationProgress |-> Null]

----------------------------------------------------------------------------
(* Remote payloads and their normalisation (pollGenerationJob) *)

\* JavaScript a || b on numbers (Missing stands for undefined) and on strings
OrNum(a, b) == IF a = Missing \/ a = 0 THEN b ELSE a
OrStr(a, b) == IF a = Undefined \/ a = "" THEN b ELSE a

RawParamsSnake ==
    [fov |-> 35, lighting |-> 80, hdr_bloom |-> 40, hdrBloom |-> Missing,
     color_temp |-> 3200, colorTemp |-> Missing, contrast |-> 70,
     camera_angle |-> "low-angle", cameraAngle |-> Undefined,
     composition |-> "centered"]

RawParamsSparse ==
    [fov |-> Missing, lighting |-> 0, hdr_bloom |-> Missing, hdrBloom |-> 20,
     color_temp |-> Missing, colorTemp |-> Missing, contrast |-> 0,
     camera_angle |-> Undefined, cameraAngle |-> "pov",
     composition |-> Undefined]

RawFrame(n, rp) ==
    [id |-> "remote-" \o ToString(n), image_url |-> "/uploads/" \o ToString(n),
     prompt |-> "remote prompt", params |-> rp, created_at |-> n,
     notes |-> Undefined]

RemoteFrameLists ==
    { <<>>,
      <<RawFrame(1, RawParamsSnake)>>,
      <<RawFrame(2, RawParamsSparse), RawFrame(1, RawParamsSnake)>> }

NormalizeFrame(frame) ==
    [id |-> frame.id,
     imageUrl |-> frame.image_url,
     prompt |-> frame.prompt,
     params |->
        [fov |-> OrNum(frame.params.fov, 50),
         lighting |-> OrNum(frame.params.lighting, 60),
         hdrBloom |-> OrNum(frame.params.hdr_bloom, OrNum(frame.params.hdrBloom, 30)),
         colorTemp |-> OrNum(frame.params.color_temp, OrNum(frame.params.colorTemp, 5500)),
         contrast |-> OrNum(frame.params.contrast, 50),
         cameraAngle |-> OrStr(frame.params.camera_angle,
                               OrStr(frame.params.cameraAngle, "eye-level")),
         composition |-> OrStr(frame.params.composition, "rule-of-thirds")],
     timestamp |-> frame.created_at,
     notes |-> frame.notes]

\* A response of fetch: net = TRUE when fetch itself throws, ok = response.ok
NetError == [net |-> TRUE, ok |-> FALSE]
HttpError == [net |-> FALSE, ok |-> FALSE]

CreateResponses ==
    { NetError, HttpError }
    \cup { [net |-> FALSE, ok |-> TRUE, id |-> "job-1", project_id |-> pid] :
              pid \in {Undefined, "backend-1"} }

JobStatus(status, step, message, err) ==
    [net |-> FALSE, ok |-> TRUE, status |-> status, progress_step |-> step,
     progress_message |-> message, error_message |-> err]

TerminalStatusResponses ==
    { JobStatus("completed", Missing, Undefined, Undefined),
      JobStatus("completed", 7, "Finalizing", Undefined) }

PendingStatusResponses ==
    { NetError, HttpError,
      JobStatus("pending", Missing, Undefined, Undefined),
      JobStatus("pending", Missing, "Queued", Undefined),
      JobStatus("pending", 5, "Generating", Undefined),
      JobStatus("pending", 9, "Extra step", Undefined),
      JobStatus("failed", Missing, Undefined, "boom"),
      JobStatus("failed", Missing, Undefined, Undefined) }

StatusResponses == TerminalStatusResponses \cup PendingStatusResponses

ProjectResponses ==
    { NetError, HttpError }
    \cup { [net |-> FALSE, ok |-> TRUE, frames |-> fs] : fs \in RemoteFrameLists }

----------------------------------------------------------------------------
(* pollGenerationJob: the state of one polling loop is a record p with      *)
(* pc in polling (job-status request in flight), fetching (project request  *)
(* in flight), sleeping (the 5 s wait of the try block, attempts not yet    *)
(* counted), caught (the 5 s wait of the catch block), returned, thrown.    *)

maxAttempts == 60

NoJob == [status |-> "none", error_message |-> Undefined]

\* job: the status and error_message of the job read in the current iteration
NoPoll == [pc |-> "none", attempts |-> 0, statusReqs |-> 0, job |-> NoJob,
           frames |-> <<>>, error |-> ""]

\* a loop test that admits one attempt too many
pollLoopOffByOne(p) ==
    IF p.attempts <= maxAttempts
    THEN [p EXCEPT !.pc = "polling", !.statusReqs = @ + 1, !.job = NoJob]
    ELSE [p EXCEPT !.pc = "thrown", !.job = NoJob,
                   !.error = "Generation timeout - job did not complete in time"]

\* the loop test and the next job-status request
pollLoop(p) ==
    IF p.attempts < maxAttempts
    THEN [p EXCEPT !.pc = "polling", !.statusReqs = @ + 1, !.job = NoJob]
    ELSE [p EXCEPT !.pc = "thrown", !.job = NoJob,
                   !.error = "Generation timeout - job did not complete in time"]

pollStart == pollLoop(NoPoll)

\* a catch block that gives up instead of counting the attempt
pollCatchAbort(p) ==
    [p EXCEPT !.pc = "thrown", !.error = "Failed to get job status"]

\* the catch block of the loop body
pollCatch(p) == [p EXCEPT !.pc = "caught", !.attempts = @ + 1]

pollOnStatus(p, job) ==
    IF job.net \/ ~job.ok THEN pollCatch(p)
    ELSE LET q == [p EXCEPT !.job = [status |-> job.status,
                                     error_message |-> job.error_message]]
         IN  IF job.status = "completed" THEN [q EXCEPT !.pc = "fetching"]
             ELSE IF job.status = "failed" THEN pollCatch(q)
             ELSE [q EXCEPT !.pc = "sleeping"]

pollOnProject(p, r) ==
    IF r.net THEN pollCatch(p)
    ELSE IF r.ok
         THEN [p EXCEPT !.pc = "returned",
                        !.frames = [i \in 1..Len(r.frames) |->
                                      NormalizeFrame(r.frames[i])]]
    ELSE [p EXCEPT !.pc = "returned", !.frames = <<>>]

pollOnWake(p) ==
    IF p.pc = "sleeping" THEN pollLoop([p EXCEPT !.attempts = @ + 1])
    ELSE pollLoop(p)

\* onProgress is called when the job carries a truthy progress_message
HasProgress(job) ==
    ~job.net /\ job.ok /\ job.progress_message # Undefined /\ job.progress_message # ""

Progress(step, message, isComplete) ==
    [step |-> step, totalSteps |-> generationStepsLength, message |-> message,
     isComplete |-> isComplete]

----------------------------------------------------------------------------
(* mockData.mockGenerateResponse: the frames of the simulated pipeline *)

\* a clamp without the upper end
ClampBelow(lo, hi, v) == Max(lo, v)

Clamp(lo, hi, v) == Max(lo, Min(hi, v))

mockGenerateResponse(prompt, params, t, seed) ==
    [k \in 1..frameCount |->
        [id |-> FrameId(t, k - 1),
         imageUrl |-> "demo-image-" \o ToString((k - 1) % 6),
         prompt |-> prompt \o " - shot " \o ToString(k),
         params |-> [params EXCEPT
                        !.fov = Clamp(24, 120, params.fov + Random(seed, 3 * k, 15) - 7),
                        !.lighting = Clamp(0, 100, params.lighting + Random(seed, 3 * k + 1, 21) - 10),
                        !.hdrBloom = Clamp(0, 100, params.hdrBloom + Random(seed, 3 * k + 2, 15) - 7),
                        !.cameraAngle = IF k = 1 THEN "eye-level"
                                        ELSE IF k = 4 THEN "low-angle"
                                        ELSE IF k = 5 THEN "over-shoulder"
                                        ELSE params.cameraAngle],
         timestamp |-> t + (k - 1) * 100,
         notes |-> IF k = 1 THEN "Opening shot - establish mood and setting"
                   ELSE Undefined]]

----------------------------------------------------------------------------
(* useGenerator: the steps of generate and regenerateFrame on the store *)

\* frames.forEach(addFrame): S1 is the store after the first addFrame
RECURSIVE addFrames(_, _, _)
addFrames(S, frames, t) ==
    IF frames = <<>> THEN S
    ELSE CHOOSE R \in {addFrames(S1, Tail(frames), t) :
                          S1 \in {addFrame(S, Head(frames), t)}} : TRUE

\* store.currentProject || currentProject, then updateProject and setCurrentProject
mergeBackendId(S, closure, backendId) ==
    LET projectToUpdate == IF S.currentProject # Null THEN S.currentProject ELSE closure
        updatedProject == [projectToUpdate EXCEPT !.backendId = backendId]
    IN  IF projectToUpdate = Null THEN S
        ELSE setCurrentProject(updateProject(S, updatedProject), updatedProject)

\* {...frame, ...refinedFrames[0], timestamp: Date.now()}: a normalized frame
\* carries every key of Frame, so each key but timestamp comes from it
refinedFrame(frame, refined, t) ==
    [id |-> refined.id, imageUrl |-> refined.imageUrl, prompt |-> refined.prompt,
     params |-> refined.params, timestamp |-> t, notes |-> refined.notes]

FindFrame(project, id) ==
    IF project = Null THEN Null
    ELSE IF \E i \in 1..Len(project.frames) : project.frames[i].id = id
         THEN project.frames[CHOOSE i \in 1..Len(project.frames) :
                                /\ project.frames[i].id = id
                                /\ \A j \in 1..(i - 1) : project.frames[j].id # id]
    ELSE Null

FindProject(ps, id) ==
    IF \E i \in 1..Len(ps) : ps[i].id = id
    THEN ps[CHOOSE i \in 1..Len(ps) :
                /\ ps[i].id = id
                /\ \A j \in 1..(i - 1) : ps[j].id # id]
    ELSE Null

arrayMove(arr, from, to) ==
    LET rest == [i \in 1..(Len(arr) - 1) |-> IF i < from THEN arr[i] ELSE arr[i + 1]]
    IN  [i \in 1..Len(arr) |->
            IF i < to THEN rest[i] ELSE IF i = to THEN arr[from] ELSE rest[i - 1]]

IdleGen ==
    [pc |-> "idle", demo |-> FALSE, closure |-> Null, prompt |-> "",
     params |-> defaultParams, step |-> 0, createReqs |-> 0, poll |-> NoPoll,
     frames |-> <<>>, error |-> "", onErrors |-> 0, complete |-> FALSE,
     startedIn |-> NullId]

IdleRegen ==
    [pc |-> "idle", demo |-> FALSE, frame |-> Null, params |-> defaultParams,
     refineReqs |-> 0, poll |-> NoPoll, ret |-> Null, error |-> ""]

InFlight(inv) == inv.pc \notin {"idle", "resolved", "rejected"}

\* last: the operation called, its argument, its result, and the value
\* selectedFrameId had when it was called
Called(op, arg, ret) ==
    last' = [op |-> op, arg |-> arg, ret |-> ret, selected |-> selectedFrameId]

----------------------------------------------------------------------------
(* Initial state: the store as constructed, no invocation started *)

InitWith(ops) ==
    /\ now = 1
    /\ demoMode = FALSE
    /\ currentProject = Null
    /\ projects = <<>>
    /\ selectedFrameId = NullId
    /\ isGenerating = FALSE
    /\ generationProgress = Null
    /\ \E seed \in Seeds : demoProject = MakeDemoProject(1, seed)
    /\ hookProject = Null
    /\ gen = [k \in 1..MaxGen |-> IdleGen]
    /\ regen = IdleRegen
    /\ timers = 0
    /\ budget = ops
    /\ last = [op |-> "init", arg |-> "", ret |-> Null, selected |-> NullId]

Init == InitWith(MaxOps)

InitStore == InitWith(MaxStoreOps)

\* a run with a single generate invocation
InitPoll == InitWith(1)

UserEvent == budget > 0 /\ budget' = budget - 1

PickIds ==
    IF currentProject = Null THEN {}
    ELSE {currentProject.frames[i].id :
             i \in 1..Min(Len(currentProject.frames), MaxPick)}

----------------------------------------------------------------------------
(* The clock *)

Tick ==
    /\ now < MaxClock
    /\ now' = now + 1
    /\ Called("flow", "", Null)
    /\ UNCHANGED <<storeVars, demoProject, hookProject, flowVars, budget>>

----------------------------------------------------------------------------
(* Store operations and the handlers that call them *)

SetDemoMode(enabled) ==
    /\ UserEvent
    /\ demoMode' = enabled
    /\ hookProject' = IF enabled # demoMode THEN currentProject ELSE hookProject
    /\ Called("setDemoMode", "", Null)
    /\ UNCHANGED <<now, currentProject, projects, selectedFrameId, isGenerating,
                   generationProgress, demoProject, flowVars>>

\* HeroSection.handleGetStarted
HandleGetStarted ==
    /\ UserEvent
    /\ Commit(setCurrentProject(Store, Null))
    /\ Called("setCurrentProject", "", Null)
    /\ UNCHANGED <<now, demoMode, isGenerating, generationProgress, demoProject,
                   hookProject, flowVars>>

\* GeneratorPage: the effect that installs the demo project
DemoProjectEffect ==
    /\ demoMode /\ currentProject = Null
    /\ LET existingDemo == FindProject(projects, demoProject.id)
           S1 == IF existingDemo = Null THEN addProject(Store, demoProject) ELSE Store
       IN  Commit(setCurrentProject(S1, demoProject))
    /\ Called("demoProjectEffect", "", Null)
    /\ UNCHANGED <<now, demoMode, isGenerating, generationProgress, demoProject,
                   hookProject, flowVars, budget>>

CreateProject(name, t2, t3) ==
    /\ UserEvent
    /\ now <= t2 /\ t2 <= t3
    /\ LET S1 == createProject(Store, name, "desc", "noir", now, t2, t3)
       IN  /\ Commit(S1)
           /\ Called("createProject", name, S1.projects[Len(S1.projects)])
    /\ now' = t3
    /\ UNCHANGED <<demoMode, isGenerating, generationProgress, demoProject,
                   hookProject, flowVars>>

SetCurrentProject(project) ==
    /\ UserEvent
    /\ Commit(setCurrentProject(Store, project))
    /\ Called("setCurrentProject", project.id, Null)
    /\ UNCHANGED <<now, demoMode, isGenerating, generationProgress, demoProject,
                   hookProject, flowVars>>

UpdateProject(project) ==
    /\ UserEvent
    /\ Commit(updateProject(Store, project))
    /\ Called("updateProject", project.id, project)
    /\ UNCHANGED <<now, demoMode, isGenerating, generationProgress, demoProject,
                   hookProject, flowVars>>

DeleteProject(id) ==
    /\ UserEvent
    /\ Commit(deleteProject(Store, id))
    /\ Called("deleteProject", id, Null)
    /\ UNCHANGED <<now, demoMode, isGenerating, generationProgress, demoProject,
                   hookProject, flowVars>>

SetSelectedFrameId(id) ==
    /\ UserEvent
    /\ Commit(setSelectedFrameId(Store, id))
    /\ Called("setSelectedFrameId", id, Null)
    /\ UNCHANGED <<now, demoMode, isGenerating, generationProgress, demoProject,
                   hookProject, flowVars>>

AddFrame(frame) ==
    /\ UserEvent
    /\ Commit(addFrame(Store, frame, now))
    /\ Called("addFrame", frame.id, Null)
    /\ UNCHANGED <<now, demoMode, isGenerating, generationProgress, demoProject,
                   hookProject, flowVars>>

\* StoryboardTimeline.handleUpdateNotes
HandleUpdateNotes(id, notes) ==
    /\ UserEvent
    /\ LET frame == FindFrame(currentProject, id)
       IN  IF frame # Null
           THEN Commit(updateFrame(Store, [frame EXCEPT !.notes = notes], now))
           ELSE Commit(Store)
    /\ Called("updateFrame", id, Null)
    /\ UNCHANGED <<now, demoMode, isGenerating, generationProgress, demoProject,
                   hookProject, flowVars>>

DeleteFrame(id) ==
    /\ UserEvent
    /\ Commit(deleteFrame(Store, id, now))
    /\ Called("deleteFrame", id, Null)
    /\ UNCHANGED <<now, demoMode, isGenerating, generationProgress, demoProject,
                   hookProject, flowVars>>

\* StoryboardTimeline.handleDragEnd
HandleDragEnd(oldIndex, newIndex) ==
    /\ UserEvent
    /\ currentProject # Null
    /\ oldIndex # newIndex
    /\ oldIndex <= Len(currentProject.frames) /\ newIndex <= Len(currentProject.frames)
    /\ Commit(reorderFrames(Store, arrayMove(currentProject.frames, oldIndex, newIndex), now))
    /\ Called("reorderFrames", "", Null)
    /\ UNCHANGED <<now, demoMode, isGenerating, generationProgress, demoProject,
                   hookProject, flowVars>>

\* updateFrame called on the store with any frame
UpdateFrame(frame) ==
    /\ UserEvent
    /\ Commit(updateFrame(Store, frame, now))
    /\ Called("updateFrame", frame.id, Null)
    /\ UNCHANGED <<now, demoMode, isGenerating, generationProgress, demoProject,
                   hookProject, flowVars>>

\* reorderFrames called on the store with any frame list
ReorderFrames(frames) ==
    /\ UserEvent
    /\ Commit(reorderFrames(Store, frames, now))
    /\ Called("reorderFrames", "", Null)
    /\ UNCHANGED <<now, demoMode, isGenerating, generationProgress, demoProject,
                   hookProject, flowVars>>

\* JsonEditor: the texts typed into the parameter editor, and JSON.parse on
\* them: a SyntaxError, the value null, or an object with the fields it names
EmptyObject ==
    [fov |-> Missing, lighting |-> Missing, hdrBloom |-> Missing, hdr_bloom |-> Missing,
     colorTemp |-> Missing, color_temp |-> Missing, contrast |-> Missing,
     cameraAngle |-> Undefined, camera_angle |-> Undefined, composition |-> Undefined]

EditedJsonTexts ==
    { "{\"fov\": 90,", "fov = 90", "null", "{}",
      "{\"fov\": 90, \"camera_angle\": \"pov\"}",
      "{\"lighting\": 0, \"hdr_bloom\": 55}" }

\* a parser that reads a text with a syntax error as the empty object
JSONparseLenient(text) ==
    IF text = "null" THEN [tag |-> "null"]
    ELSE IF text = "{\"fov\": 90, \"camera_angle\": \"pov\"}"
    THEN [tag |-> "object",
          value |-> [EmptyObject EXCEPT !.fov = 90, !.camera_angle = "pov"]]
    ELSE IF text = "{\"lighting\": 0, \"hdr_bloom\": 55}"
    THEN [tag |-> "object",
          value |-> [EmptyObject EXCEPT !.lighting = 0, !.hdr_bloom = 55]]
    ELSE [tag |-> "object", value |-> EmptyObject]

JSONparse(text) ==
    IF text = "null" THEN [tag |-> "null"]
    ELSE IF text = "{}" THEN [tag |-> "object", value |-> EmptyObject]
    ELSE IF text = "{\"fov\": 90, \"camera_angle\": \"pov\"}"
    THEN [tag |-> "object",
          value |-> [EmptyObject EXCEPT !.fov = 90, !.camera_angle = "pov"]]
    ELSE IF text = "{\"lighting\": 0, \"hdr_bloom\": 55}"
    THEN [tag |-> "object",
          value |-> [EmptyObject EXCEPT !.lighting = 0, !.hdr_bloom = 55]]
    ELSE [tag |-> "SyntaxError"]

InvalidJsonError == [jsonError |-> "Invalid JSON format. Please check your syntax."]

NoJsonError == [jsonError |-> ""]

\* the params handleSaveEdit builds from the parsed object and the selected frame
updatedParams(parsedJson, params) ==
    [fov |-> OrNum(parsedJson.fov, params.fov),
     lighting |-> OrNum(parsedJson.lighting, params.lighting),
     hdrBloom |-> OrNum(parsedJson.hdrBloom, OrNum(parsedJson.hdr_bloom, params.hdrBloom)),
     colorTemp |-> OrNum(parsedJson.colorTemp,
                         OrNum(parsedJson.color_temp, params.colorTemp)),
     contrast |-> OrNum(parsedJson.contrast, params.contrast),
     cameraAngle |-> OrStr(parsedJson.cameraAngle,
                           OrStr(parsedJson.camera_angle, params.cameraAngle)),
     composition |-> OrStr(parsedJson.composition, params.composition)]

\* JsonEditor.handleSaveEdit; the Save button is rendered only while a frame
\* is selected. Reading a field of null throws inside the try block as the
\* SyntaxError of JSON.parse does. last.ret is the jsonError the handler sets.
HandleSaveEdit(editedJson) ==
    /\ UserEvent
    /\ FindFrame(currentProject, selectedFrameId) # Null
    /\ LET selectedFrame == FindFrame(currentProject, selectedFrameId)
           parsedJson == JSONparse(editedJson)
       IN  IF parsedJson.tag = "object"
           THEN /\ Commit(updateFrame(Store,
                            [selectedFrame EXCEPT
                                !.params = updatedParams(parsedJson.value, @),
                                !.timestamp = now], now))
                /\ Called("handleSaveEdit", editedJson, NoJsonError)
           ELSE /\ Commit(Store)
                /\ Called("handleSaveEdit", editedJson, InvalidJsonError)
    /\ UNCHANGED <<now, demoMode, isGenerating, generationProgress, demoProject,
                   hookProject, flowVars>>

\* reorderFrames called with the frame list the current project already has
ReorderFramesUnchanged ==
    /\ UserEvent
    /\ currentProject # Null
    /\ Commit(reorderFrames(Store, currentProject.frames, now))
    /\ Called("reorderFramesUnchanged", "", currentProject)
    /\ UNCHANGED <<now, demoMode, isGenerating, generationProgress, demoProject,
                   hookProject, flowVars>>

\* The page is reloaded: the running invocations and timers are gone, the
\* modules are loaded again (demoProject is rebuilt from the clock) and the
\* store is built from its initial state and the persisted part.
Reload(seed) ==
    /\ UserEvent
    /\ LET S1 == hydrate(partialize(demoMode, projects))
       IN  /\ demoMode' = S1.demoMode
           /\ projects' = S1.projects
           /\ currentProject' = S1.currentProject
           /\ selectedFrameId' = S1.selectedFrameId
           /\ isGenerating' = S1.isGenerating
           /\ generationProgress' = S1.generationProgress
    /\ demoProject' = MakeDemoProject(now, seed)
    /\ hookProject' = Null
    /\ gen' = [k \in 1..MaxGen |-> IdleGen]
    /\ regen' = IdleRegen
    /\ timers' = 0
    /\ Called("reload", "", currentProject)
    /\ UNCHANGED now

----------------------------------------------------------------------------
(* useGenerator.generate, called by SceneForm.handleGenerate *)

FreeSlot(k) ==
    /\ ~InFlight(gen[k])
    /\ \A j \in 1..(k - 1) : InFlight(gen[j])

\* the catch and finally blocks of generate; onErrors counts the calls of the
\* onError handler of the hook's options
genReject(g, message) ==
    [g EXCEPT !.pc = "rejected", !.error = message, !.onErrors = @ + 1]

\* a generate that fails after its frames were produced
genResolveThrows(g, frames) ==
    [g EXCEPT !.pc = "rejected", !.frames = frames, !.error = "Unknown error",
              !.onErrors = @ + 1]

\* frames.forEach(addFrame), the final progress record, the return
genResolve(g, frames) ==
    [g EXCEPT !.pc = "resolved", !.frames = frames, !.complete = TRUE]

HandleGenerate(k, prompt, params) ==
    /\ UserEvent
    /\ FreeSlot(k)
    /\ LET newProject == NewProject(prompt, prompt, "noir", now, now, now)
           S1 == IF currentProject = Null
                 THEN setCurrentProject(addProject(Store, newProject), newProject)
                 ELSE Store
       IN  Commit(S1)
    /\ isGenerating' = TRUE
    /\ IF demoMode
       THEN /\ generationProgress' = Progress(1, "step-1", FALSE)
            /\ gen' = [gen EXCEPT ![k] =
                          [IdleGen EXCEPT !.pc = "demoStep", !.demo = TRUE,
                                          !.closure = hookProject, !.prompt = prompt,
                                          !.params = params, !.step = 1,
                                          !.startedIn = IF currentProject = Null
                                                        THEN ProjectId(now)
                                                        ELSE currentProject.id]]
       ELSE /\ generationProgress' = Progress(0, "Initializing...", FALSE)
            /\ gen' = [gen EXCEPT ![k] =
                          [IdleGen EXCEPT !.pc = "creating", !.closure = hookProject,
                                          !.prompt = prompt, !.params = params,
                                          !.createReqs = 1,
                                          !.startedIn = IF currentProject = Null
                                                        THEN ProjectId(now)
                                                        ELSE currentProject.id]]
    /\ Called("generate", prompt, Null)
    /\ UNCHANGED <<now, demoMode, demoProject, hookProject, regen, timers>>

\* mockGenerateResponse: one step delay has elapsed
GenDemoStep(k, seed) ==
    /\ gen[k].pc = "demoStep"
    /\ IF gen[k].step < generationStepsLength
       THEN /\ gen' = [gen EXCEPT ![k].step = @ + 1]
            /\ generationProgress' =
                   Progress(gen[k].step + 1, "step-" \o ToString(gen[k].step + 1), FALSE)
            /\ Called("flow", "", Null)
            /\ UNCHANGED <<currentProject, projects, selectedFrameId, timers>>
       ELSE \E frames \in {mockGenerateResponse(gen[k].prompt, gen[k].params, now, seed)} :
            \E S1 \in {mergeBackendId(Store, gen[k].closure,
                                      "demo-backend-" \o ToString(now))} :
            \E S2 \in {addFrames(S1, frames, now)} :
                /\ Commit(S2)
                /\ generationProgress' = Progress(generationStepsLength, "Complete!", TRUE)
                /\ gen' = [gen EXCEPT ![k] = genResolve(@, frames)]
                /\ timers' = timers + 1
                /\ Called("flow", "", Null)
    /\ UNCHANGED <<now, demoMode, isGenerating, demoProject, hookProject, regen, budget>>

\* the response of the job-creation request
GenCreateResponse(k, r) ==
    /\ gen[k].pc = "creating"
    /\ IF r.net \/ ~r.ok
       THEN /\ gen' = [gen EXCEPT ![k] =
                          genReject(@, IF r.net THEN "Failed to fetch"
                                       ELSE "Generation failed: status")]
            /\ timers' = timers + 1
            /\ Called("flow", IF r.net THEN "create-net-error" ELSE "create-not-ok", Null)
            /\ UNCHANGED <<currentProject, projects, selectedFrameId>>
       ELSE /\ IF r.project_id # Undefined
               THEN Commit(mergeBackendId(Store, gen[k].closure, r.project_id))
               ELSE Commit(Store)
            /\ gen' = [gen EXCEPT ![k].pc = "polling", ![k].poll = pollStart]
            /\ Called("flow", IF r.project_id # Undefined THEN "create-ok-project-id"
                               ELSE "create-ok", Null)
            /\ UNCHANGED timers
    /\ UNCHANGED <<now, demoMode, isGenerating, generationProgress, demoProject,
                   hookProject, regen, budget>>

\* what generate does once its pollGenerationJob has moved to p
GenAfterPoll(k, p) ==
    IF p.pc = "returned"
    THEN /\ Commit(addFrames(Store, p.frames, now))
         /\ generationProgress' = Progress(generationStepsLength, "Complete!", TRUE)
         /\ gen' = [gen EXCEPT ![k] = genResolve([@ EXCEPT !.poll = p], p.frames)]
         /\ timers' = timers + 1
         /\ Called("flow", "", Null)
    ELSE IF p.pc = "thrown"
    THEN /\ gen' = [gen EXCEPT ![k] = genReject([@ EXCEPT !.poll = p], p.error)]
         /\ timers' = timers + 1
         /\ Called("flow", "", Null)
         /\ UNCHANGED <<currentProject, projects, selectedFrameId, generationProgress>>
    ELSE /\ gen' = [gen EXCEPT ![k].poll = p]
         /\ Called("flow", "", Null)
         /\ UNCHANGED <<currentProject, projects, selectedFrameId, generationProgress,
                        timers>>

\* the response of a job-status request of generate
GenStatusResponse(k, job) ==
    /\ gen[k].pc = "polling" /\ gen[k].poll.pc = "polling"
    /\ gen' = [gen EXCEPT ![k].poll = pollOnStatus(@, job)]
    /\ generationProgress' =
           IF HasProgress(job)
           THEN Progress(OrNum(job.progress_step, 0), job.progress_message, FALSE)
           ELSE generationProgress
    /\ Called("flow", "", Null)
    /\ UNCHANGED <<now, demoMode, currentProject, projects, selectedFrameId,
                   isGenerating, demoProject, hookProject, regen, timers, budget>>

\* the response of the project request of generate
GenProjectResponse(k, r) ==
    /\ gen[k].pc = "polling" /\ gen[k].poll.pc = "fetching"
    /\ GenAfterPoll(k, pollOnProject(gen[k].poll, r))
    /\ UNCHANGED <<now, demoMode, isGenerating, demoProject, hookProject, regen, budget>>

\* the 5 s wait of the polling loop of generate has elapsed
GenWake(k) ==
    /\ gen[k].pc = "polling" /\ gen[k].poll.pc \in {"sleeping", "caught"}
    /\ GenAfterPoll(k, pollOnWake(gen[k].poll))
    /\ UNCHANGED <<now, demoMode, isGenerating, demoProject, hookProject, regen, budget>>

\* a delayed cleanup that leaves the progress record in place
GenCleanupFlagOnly ==
    /\ timers > 0
    /\ timers' = timers - 1
    /\ isGenerating' = FALSE
    /\ Called("flow", "", Null)
    /\ UNCHANGED <<now, demoMode, currentProject, projects, selectedFrameId,
                   generationProgress, demoProject, hookProject, gen, regen, budget>>

\* the delayed cleanup scheduled by the finally block of generate
GenCleanup ==
    /\ timers > 0
    /\ timers' = timers - 1
    /\ isGenerating' = FALSE
    /\ generationProgress' = Null
    /\ Called("flow", "", Null)
    /\ UNCHANGED <<now, demoMode, currentProject, projects, selectedFrameId,
                   demoProject, hookProject, gen, regen, budget>>

----------------------------------------------------------------------------
(* useGenerator.regenerateFrame *)

\* a regenerateFrame that raises isGenerating before it looks for the frame
RegenerateFrameEagerFlag(frameId, params) ==
    /\ UserEvent
    /\ ~InFlight(regen)
    /\ isGenerating' = TRUE
    /\ LET frame == FindFrame(currentProject, frameId)
       IN  IF currentProject = Null \/ frame = Null
           THEN /\ Called("regenerateFrame", frameId, Null)
                /\ UNCHANGED regen
           ELSE /\ regen' = IF demoMode
                            THEN [IdleRegen EXCEPT !.pc = "waiting", !.demo = TRUE,
                                                   !.frame = frame, !.params = params]
                            ELSE [IdleRegen EXCEPT !.pc = "refining", !.frame = frame,
                                                   !.params = params, !.refineReqs = 1]
                /\ Called("regenerateFrame", frameId, frame)
    /\ UNCHANGED <<now, demoMode, currentProject, projects, selectedFrameId,
                   generationProgress, demoProject, hookProject, gen, timers>>

RegenerateFrame(frameId, params) ==
    /\ UserEvent
    /\ ~InFlight(regen)
    /\ LET frame == FindFrame(currentProject, frameId)
       IN  IF currentProject = Null \/ frame = Null
           THEN /\ Called("regenerateFrame", frameId, Null)
                /\ UNCHANGED <<isGenerating, regen>>
           ELSE /\ isGenerating' = TRUE
                /\ regen' = IF demoMode
                            THEN [IdleRegen EXCEPT !.pc = "waiting", !.demo = TRUE,
                                                   !.frame = frame, !.params = params]
                            ELSE [IdleRegen EXCEPT !.pc = "refining", !.frame = frame,
                                                   !.params = params, !.refineReqs = 1]
                /\ Called("regenerateFrame", frameId, frame)
    /\ UNCHANGED <<now, demoMode, currentProject, projects, selectedFrameId,
                   generationProgress, demoProject, hookProject, gen, timers>>

\* a demo path that reads the frame again from the store when the wait is over
RegenDemoDoneFresh ==
    /\ regen.pc = "waiting"
    /\ LET fresh == FindFrame(currentProject, regen.frame.id)
           frame == IF fresh = Null THEN regen.frame ELSE fresh
           updatedFrame == [frame EXCEPT !.params = regen.params, !.timestamp = now]
       IN  /\ Commit(updateFrame(Store, updatedFrame, now))
           /\ regen' = [regen EXCEPT !.pc = "resolved", !.ret = updatedFrame]
    /\ isGenerating' = FALSE
    /\ Called("flow", regen.frame.id, FindFrame(currentProject, regen.frame.id))
    /\ UNCHANGED <<now, demoMode, generationProgress, demoProject, hookProject, gen,
                   timers, budget>>

\* demo path: the 2 s wait has elapsed; last.ret keeps the frame that the
\* store held under the id before the write
RegenDemoDone ==
    /\ regen.pc = "waiting"
    /\ LET updatedFrame == [regen.frame EXCEPT !.params = regen.params, !.timestamp = now]
       IN  /\ Commit(updateFrame(Store, updatedFrame, now))
           /\ regen' = [regen EXCEPT !.pc = "resolved", !.ret = updatedFrame]
    /\ isGenerating' = FALSE
    /\ Called("flow", regen.frame.id, FindFrame(currentProject, regen.frame.id))
    /\ UNCHANGED <<now, demoMode, generationProgress, demoProject, hookProject, gen,
                   timers, budget>>

\* the response of the refinement request
RegenRefineResponse(r) ==
    /\ regen.pc = "refining"
    /\ IF r.net \/ ~r.ok
       THEN /\ regen' = [regen EXCEPT !.pc = "rejected",
                                      !.error = IF r.net THEN "Failed to fetch"
                                                ELSE "Refinement failed: status"]
            /\ isGenerating' = FALSE
            /\ Called("flow", "", Null)
       ELSE /\ regen' = [regen EXCEPT !.pc = "polling", !.poll = pollStart]
            /\ Called("flow", "", Null)
            /\ UNCHANGED isGenerating
    /\ UNCHANGED <<now, demoMode, currentProject, projects, selectedFrameId,
                   generationProgress, demoProject, hookProject, gen, timers, budget>>

\* what regenerateFrame does once its pollGenerationJob has moved to p
RegenAfterPoll(p) ==
    IF p.pc = "returned"
    THEN IF Len(p.frames) > 0
         THEN LET merged == refinedFrame(regen.frame, p.frames[1], now)
              IN  /\ Commit(updateFrame(Store, merged, now))
                  /\ regen' = [regen EXCEPT !.pc = "resolved", !.poll = p, !.ret = merged]
                  /\ isGenerating' = FALSE
                  /\ Called("flow", "", Null)
         ELSE /\ regen' = [regen EXCEPT !.pc = "resolved", !.poll = p, !.ret = Null]
              /\ isGenerating' = FALSE
              /\ Called("flow", "", Null)
              /\ UNCHANGED <<currentProject, projects, selectedFrameId>>
    ELSE IF p.pc = "thrown"
    THEN /\ regen' = [regen EXCEPT !.pc = "rejected", !.poll = p, !.error = p.error]
         /\ isGenerating' = FALSE
         /\ Called("flow", "", Null)
         /\ UNCHANGED <<currentProject, projects, selectedFrameId>>
    ELSE /\ regen' = [regen EXCEPT !.poll = p]
         /\ Called("flow", "", Null)
         /\ UNCHANGED <<currentProject, projects, selectedFrameId, isGenerating>>

RegenStatusResponse(job) ==
    /\ regen.pc = "polling" /\ regen.poll.pc = "polling"
    /\ regen' = [regen EXCEPT !.poll = pollOnStatus(@, job)]
    /\ Called("flow", "", Null)
    /\ UNCHANGED <<now, storeVars, demoProject, hookProject, gen, timers, budget>>

RegenProjectResponse(r) ==
    /\ regen.pc = "polling" /\ regen.poll.pc = "fetching"
    /\ RegenAfterPoll(pollOnProject(regen.poll, r))
    /\ UNCHANGED <<now, demoMode, generationProgress, demoProject, hookProject, gen,
                   timers, budget>>

RegenWake ==
    /\ regen.pc = "polling" /\ regen.poll.pc \in {"sleeping", "caught"}
    /\ RegenAfterPoll(pollOnWake(regen.poll))
    /\ UNCHANGED <<now, demoMode, generationProgress, demoProject, hookProject, gen,
                   timers, budget>>

----------------------------------------------------------------------------
(* Specifications *)

SampleFrame == NormalizeFrame(RawFrame(1, RawParamsSnake))

\* the remote service answers a poll with a non-terminal status at most
\* MaxPending times per job in the application specification
Answers(p) ==
    IF p.attempts < MaxPending THEN StatusResponses ELSE TerminalStatusResponses

ProjectAnswers(p) ==
    IF p.attempts < MaxPending THEN ProjectResponses ELSE ProjectResponses \ {NetError}

StoreNext ==
    \/ Tick
    \/ \E enabled \in BOOLEAN : SetDemoMode(enabled)
    \/ HandleGetStarted
    \/ DemoProjectEffect
    \/ \E name \in Names, t2, t3 \in 1..MaxClock : CreateProject(name, t2, t3)
    \/ \E project \in Range(projects) : SetCurrentProject(project)
    \/ \E project \in Range(projects) : UpdateProject([project EXCEPT !.name = "Renamed"])
    \/ \E project \in Range(projects) : DeleteProject(project.id)
    \/ \E id \in PickIds : SetSelectedFrameId(id)
    \/ AddFrame(SampleFrame)
    \/ \E id \in PickIds : HandleUpdateNotes(id, "note")
    \/ \E id \in PickIds \cup ({selectedFrameId} \ {NullId}) : DeleteFrame(id)
    \/ \E oldIndex, newIndex \in 1..MaxPick : HandleDragEnd(oldIndex, newIndex)

GenNext(k) ==
    \/ \E prompt \in Prompts : HandleGenerate(k, prompt, defaultParams)
    \/ \E seed \in Seeds : GenDemoStep(k, seed)
    \/ \E r \in CreateResponses : GenCreateResponse(k, r)
    \/ GenWake(k)

RegenNext ==
    \/ \E id \in PickIds \cup {"frame-missing"} : RegenerateFrame(id, defaultParams)
    \/ RegenDemoDone
    \/ \E r \in CreateResponses : RegenRefineResponse(r)
    \/ RegenWake

Next ==
    \/ StoreNext
    \/ \E k \in 1..MaxGen : GenNext(k)
    \/ \E k \in 1..MaxGen : \E job \in Answers(gen[k].poll) : GenStatusResponse(k, job)
    \/ \E k \in 1..MaxGen : \E r \in ProjectAnswers(gen[k].poll) : GenProjectResponse(k, r)
    \/ GenCleanup
    \/ RegenNext
    \/ \E job \in Answers(regen.poll) : RegenStatusResponse(job)
    \/ \E r \in ProjectAnswers(regen.poll) : RegenProjectResponse(r)

Spec == Init /\ [][Next]_vars

\* the store operations and the handlers alone, with a longer run of user events
SpecStore == InitStore /\ [][StoreNext]_vars

\* The timeline's regenerate button with the store operations around it:
\* regenerateFrame alone, no generation running beside it.
RegenOnlyNext ==
    \/ Tick
    \/ \E enabled \in BOOLEAN : SetDemoMode(enabled)
    \/ HandleGetStarted
    \/ DemoProjectEffect
    \/ \E id \in PickIds : HandleUpdateNotes(id, "note")
    \/ \E id \in PickIds : DeleteFrame(id)
    \/ RegenNext
    \/ \E job \in Answers(regen.poll) : RegenStatusResponse(job)
    \/ \E r \in ProjectAnswers(regen.poll) : RegenProjectResponse(r)

SpecRegen == InitStore /\ [][RegenOnlyNext]_vars

\* one generate invocation at a time against a remote service that may answer
\* every poll with a non-terminal status
PollNext ==
    \/ \E prompt \in Prompts : HandleGenerate(1, prompt, defaultParams)
    \/ \E r \in CreateResponses : GenCreateResponse(1, r)
    \/ \E job \in StatusResponses : GenStatusResponse(1, job)
    \/ \E r \in ProjectResponses : GenProjectResponse(1, r)
    \/ GenWake(1)
    \/ GenCleanup

SpecPoll == InitPoll /\ [][PollNext]_vars

\* every request is answered and every timer fires
PollFairness ==
    /\ WF_vars(\E r \in CreateResponses : GenCreateResponse(1, r))
    /\ WF_vars(\E job \in StatusResponses : GenStatusResponse(1, job))
    /\ WF_vars(\E r \in ProjectResponses : GenProjectResponse(1, r))
    /\ WF_vars(GenWake(1))
    /\ WF_vars(GenCleanup)

SpecPollFair == SpecPoll /\ PollFairness

\* The store as built on a later visit: the persisted demoMode is either
\* value, no project is open.
InitFlow ==
    /\ now = 1
    /\ demoMode \in BOOLEAN
    /\ currentProject = Null
    /\ projects = <<>>
    /\ selectedFrameId = NullId
    /\ isGenerating = FALSE
    /\ generationProgress = Null
    /\ \E seed \in Seeds : demoProject = MakeDemoProject(1, seed)
    /\ hookProject = Null
    /\ gen = [k \in 1..MaxGen |-> IdleGen]
    /\ regen = IdleRegen
    /\ timers = 0
    /\ budget = MaxOps
    /\ last = [op |-> "init", arg |-> "", ret |-> Null, selected |-> NullId]

\* the answers of a remote service that reports progress with its status
FlowCreateResponses ==
    {HttpError, [net |-> FALSE, ok |-> TRUE, id |-> "job-1", project_id |-> "backend-1"]}

FlowStatusResponses(p) ==
    IF p.attempts < MaxPending
    THEN {NetError,
          JobStatus("pending", 5, "Generating", Undefined),
          JobStatus("completed", 7, "Finalizing", Undefined)}
    ELSE {JobStatus("completed", 7, "Finalizing", Undefined)}

FlowProjectResponses ==
    {HttpError, [net |-> FALSE, ok |-> TRUE, frames |-> <<RawFrame(1, RawParamsSnake)>>]}

\* generate and regenerateFrame side by side, overlapping at will
FlowNext ==
    \/ \E enabled \in BOOLEAN : SetDemoMode(enabled)
    \/ DemoProjectEffect
    \/ HandleGetStarted
    \/ \E k \in 1..MaxGen, prompt \in Prompts : HandleGenerate(k, prompt, defaultParams)
    \/ \E k \in 1..MaxGen, seed \in Seeds : GenDemoStep(k, seed)
    \/ \E k \in 1..MaxGen, r \in FlowCreateResponses : GenCreateResponse(k, r)
    \/ \E k \in 1..MaxGen : \E job \in FlowStatusResponses(gen[k].poll) :
          GenStatusResponse(k, job)
    \/ \E k \in 1..MaxGen, r \in FlowProjectResponses : GenProjectResponse(k, r)
    \/ \E k \in 1..MaxGen : GenWake(k)
    \/ GenCleanup
    \/ \E id \in PickIds \cup {"frame-missing"} : RegenerateFrame(id, defaultParams)
    \/ RegenDemoDone
    \/ \E r \in FlowCreateResponses : RegenRefineResponse(r)
    \/ \E job \in FlowStatusResponses(regen.poll) : RegenStatusResponse(job)
    \/ \E r \in FlowProjectResponses : RegenProjectResponse(r)
    \/ RegenWake

SpecFlow == InitFlow /\ [][FlowNext]_vars

\* one generate at a time, with parameter sets inside and outside the
\* sliders' ranges
GenOnlyNext ==
    \/ \E enabled \in BOOLEAN : SetDemoMode(enabled)
    \/ DemoProjectEffect
    \/ \E prompt \in Prompts, params \in ParamSets : HandleGenerate(1, prompt, params)
    \/ \E seed \in Seeds : GenDemoStep(1, seed)
    \/ \E r \in FlowCreateResponses : GenCreateResponse(1, r)
    \/ \E job \in FlowStatusResponses(gen[1].poll) : GenStatusResponse(1, job)
    \/ \E r \in FlowProjectResponses : GenProjectResponse(1, r)
    \/ GenWake(1)
    \/ GenCleanup

SpecGen == InitFlow /\ [][GenOnlyNext]_vars

\* every step delay of the simulated pipeline elapses
GenFairness == WF_vars(\E seed \in Seeds : GenDemoStep(1, seed))

SpecGenFair == SpecGen /\ GenFairness

\* the store across page reloads, with a generation that a reload may cut off
PersistNext ==
    \/ Tick
    \/ \E enabled \in BOOLEAN : SetDemoMode(enabled)
    \/ DemoProjectEffect
    \/ \E id \in PickIds : SetSelectedFrameId(id)
    \/ \E prompt \in Prompts : HandleGenerate(1, prompt, defaultParams)
    \/ \E seed \in Seeds : GenDemoStep(1, seed)
    \/ \E r \in FlowCreateResponses : GenCreateResponse(1, r)
    \/ GenCleanup
    \/ \E seed \in Seeds : Reload(seed)

SpecPersist == InitFlow /\ [][PersistNext]_vars

\* reordering, with the handlers that open, close and change the demo project
ReorderNext ==
    \/ Tick
    \/ \E enabled \in BOOLEAN : SetDemoMode(enabled)
    \/ DemoProjectEffect
    \/ HandleGetStarted
    \/ \E id \in PickIds : DeleteFrame(id)
    \/ \E oldIndex, newIndex \in 1..MaxPick : HandleDragEnd(oldIndex, newIndex)
    \/ ReorderFramesUnchanged

SpecReorder == InitStore /\ [][ReorderNext]_vars

\* the four frame operations called on the store, with or without a project
FrameOpsNext ==
    \/ Tick
    \/ \E enabled \in BOOLEAN : SetDemoMode(enabled)
    \/ DemoProjectEffect
    \/ HandleGetStarted
    \/ \E id \in PickIds : SetSelectedFrameId(id)
    \/ AddFrame(SampleFrame)
    \/ UpdateFrame([SampleFrame EXCEPT !.notes = "note"])
    \/ \E id \in PickIds \cup ({selectedFrameId} \ {NullId}) : DeleteFrame(id)
    \/ \E frames \in {<<>>, <<SampleFrame>>} : ReorderFrames(frames)

SpecFrameOps == InitStore /\ [][FrameOpsNext]_vars

\* the project operations of the store
ProjectsNext ==
    \/ Tick
    \/ \E enabled \in BOOLEAN : SetDemoMode(enabled)
    \/ DemoProjectEffect
    \/ \E name \in Names, t2, t3 \in 1..MaxClock : CreateProject(name, t2, t3)
    \/ \E project \in Range(projects) : SetCurrentProject(project)
    \/ \E project \in Range(projects) \cup {demoProject} :
          UpdateProject([project EXCEPT !.name = "Renamed"])
    \/ \E project \in Range(projects) \cup {demoProject} : DeleteProject(project.id)

SpecProjects == InitStore /\ [][ProjectsNext]_vars

\* one generate while the user deletes frames, closes and deletes projects
InitOverlap ==
    /\ now = 1
    /\ demoMode \in BOOLEAN
    /\ currentProject = Null
    /\ projects = <<>>
    /\ selectedFrameId = NullId
    /\ isGenerating = FALSE
    /\ generationProgress = Null
    /\ \E seed \in Seeds : demoProject = MakeDemoProject(1, seed)
    /\ hookProject = Null
    /\ gen = [k \in 1..MaxGen |-> IdleGen]
    /\ regen = IdleRegen
    /\ timers = 0
    /\ budget = MaxStoreOps
    /\ last = [op |-> "init", arg |-> "", ret |-> Null, selected |-> NullId]

OverlapNext ==
    \/ \E enabled \in BOOLEAN : SetDemoMode(enabled)
    \/ DemoProjectEffect
    \/ HandleGetStarted
    \/ \E id \in PickIds : DeleteFrame(id)
    \/ \E project \in Range(projects) : DeleteProject(project.id)
    \/ \E prompt \in Prompts : HandleGenerate(1, prompt, defaultParams)
    \/ \E seed \in Seeds : GenDemoStep(1, seed)
    \/ \E r \in CreateResponses : GenCreateResponse(1, r)
    \/ \E job \in FlowStatusResponses(gen[1].poll) : GenStatusResponse(1, job)
    \/ \E r \in FlowProjectResponses : GenProjectResponse(1, r)
    \/ GenWake(1)
    \/ GenCleanup

SpecOverlap == InitOverlap /\ [][OverlapNext]_vars

\* a demo-mode regenerateFrame while the notes of frames are edited
StaleNext ==
    \/ Tick
    \/ \E enabled \in BOOLEAN : SetDemoMode(enabled)
    \/ DemoProjectEffect
    \/ \E id \in PickIds : HandleUpdateNotes(id, "note")
    \/ \E id \in PickIds : RegenerateFrame(id, defaultParams)
    \/ RegenDemoDone

SpecStale == InitStore /\ [][StaleNext]_vars

\* manual parameter edits of the selected frame
EditNext ==
    \/ Tick
    \/ \E enabled \in BOOLEAN : SetDemoMode(enabled)
    \/ DemoProjectEffect
    \/ \E id \in PickIds : SetSelectedFrameId(id)
    \/ \E editedJson \in EditedJsonTexts : HandleSaveEdit(editedJson)

SpecEdit == InitStore /\ [][EditNext]_vars

----------------------------------------------------------------------------
(* Properties *)

FrameOps == {"addFrame", "updateFrame", "deleteFrame", "reorderFrames"}

HasEntry(project) == \E i \in 1..Len(projects) : projects[i].id = project.id

TimeoutMessage == "Generation timeout - job did not complete in time"

\* C1: in remote mode, a job-status answer 'failed' with error_message m ends
\* the polling loop and makes generate reject with message m.
FailedJobRejectsWithMessage ==
    \A k \in 1..MaxGen :
        (gen[k].poll.job.status = "failed" /\ gen[k].poll.job.error_message # Undefined)
            => (gen[k].pc = "rejected" /\ gen[k].error = gen[k].poll.job.error_message)

\* C2: after each addFrame, updateFrame, deleteFrame or reorderFrames call with
\* a current project whose id is in projects, the frame list of currentProject
\* and that of every projects entry with its id are the same.
FramesInSync ==
    (last.op \in FrameOps /\ currentProject # Null /\ HasEntry(currentProject))
        => \A i \in 1..Len(projects) :
               projects[i].id = currentProject.id
                   => projects[i].frames = currentProject.frames

FramesInSyncWitness ==
    /\ last.op = "deleteFrame"
    /\ currentProject # Null
    /\ HasEntry(currentProject)
    /\ Len(currentProject.frames) = 5

\* C3: currentProject is null, or no entry of projects has its id, or it is
\* equal to an entry of projects with its id.
CurrentProjectMirrorsEntry ==
    \/ currentProject = Null
    \/ ~HasEntry(currentProject)
    \/ \E i \in 1..Len(projects) : projects[i] = currentProject

\* C4: when the remote regenerateFrame completes with at least one returned
\* frame, the current project keeps its frame ids in order, the frame with the
\* requested id carries the returned fields, and no other frame is changed.
RegenerateMergesInPlace ==
    [][(/\ regen.pc = "polling" /\ regen'.pc = "resolved"
        /\ Len(regen'.poll.frames) > 0
        /\ currentProject # Null /\ currentProject' # Null)
       => LET before == currentProject.frames
              after == currentProject'.frames
              returned == regen'.poll.frames[1]
          IN  /\ Len(after) = Len(before)
              /\ \A i \in 1..Len(before) :
                    /\ after[i].id = before[i].id
                    /\ before[i].id = regen.frame.id
                          => /\ after[i].imageUrl = returned.imageUrl
                             /\ after[i].prompt = returned.prompt
                             /\ after[i].params = returned.params
                    /\ before[i].id # regen.frame.id => after[i] = before[i]]_vars

CreateProjectContract ==
    last.op = "createProject"
        => /\ last.ret.frames = <<>>
           /\ last.ret.createdAt = last.ret.updatedAt
           /\ last.ret \in Range(projects)

\* C7: the id of the project allocated by createProject differs from the id
\* of every project already in projects.
CreateProjectIdFresh ==
    last.op = "createProject"
        => Cardinality({i \in 1..Len(projects) : projects[i].id = last.ret.id}) = 1

RegenerateMissingFrameNoOp ==
    [][(/\ last'.op = "regenerateFrame" /\ budget' # budget
        /\ FindFrame(currentProject, last'.arg) = Null)
       => /\ last'.ret = Null
          /\ UNCHANGED <<projects, currentProject, selectedFrameId, isGenerating,
                         generationProgress, gen, regen, timers>>]_vars

RegenerateMissingFrameWitness ==
    /\ last.op = "regenerateFrame"
    /\ last.arg = "frame-missing"
    /\ last.ret = Null
    /\ currentProject # Null
    /\ Len(currentProject.frames) > 0
    /\ ~isGenerating

\* C10: one pollGenerationJob issues at most 60 job-status requests, fails
\* only with the timeout error once the 60 attempts are spent, and always
\* comes to an end.
PollBounded ==
    \A k \in 1..MaxGen :
        /\ gen[k].poll.statusReqs <= maxAttempts
        /\ gen[k].poll.attempts <= maxAttempts
        /\ gen[k].poll.pc = "thrown"
              => /\ gen[k].pc = "rejected"
                 /\ gen[k].error = TimeoutMessage
                 /\ gen[k].poll.attempts = maxAttempts
                 /\ gen[k].poll.statusReqs = maxAttempts

PollTerminates ==
    /\ []PollBounded
    /\ \A k \in 1..MaxGen :
          (gen[k].pc = "polling") ~> (gen[k].pc \in {"resolved", "rejected"})

PollTerminatesWitness ==
    /\ gen[1].pc = "rejected"
    /\ gen[1].poll.pc = "thrown"
    /\ gen[1].poll.statusReqs = maxAttempts

Started(g) == g.pc \in {"creating", "demoStep", "polling"}

\* C11: when generate resolves while a project is open, the open project's
\* frames afterwards are its frames before followed by the produced frames
\* in order, generationProgress is complete and a cleanup timer is pending;
\* when a cleanup timer fires, isGenerating is false and generationProgress
\* is null.
GenerateAppendsFrames ==
    [][/\ \A k \in 1..MaxGen :
             (Started(gen[k]) /\ gen'[k].pc = "resolved" /\ currentProject # Null)
                => /\ currentProject' # Null
                   /\ currentProject'.frames = currentProject.frames \o gen'[k].frames
                   /\ generationProgress' # Null
                   /\ generationProgress'.isComplete
                   /\ timers' = timers + 1
       /\ timers' < timers => (~isGenerating' /\ generationProgress' = Null)]_vars

GenerateAppendsFramesWitness ==
    \E k \in 1..MaxGen :
        /\ gen[k].pc = "resolved"
        /\ Len(gen[k].frames) > 0
        /\ currentProject # Null
        /\ Len(currentProject.frames) > Len(gen[k].frames)
        /\ generationProgress # Null
        /\ generationProgress.isComplete

\* C12: a generate that met a failure (a refused or failed creation request,
\* a failed job, a polling timeout) is rejected, has called onError once, has
\* produced no frame and has never reported completion.
GenerateFailureContract ==
    \A k \in 1..MaxGen :
        (gen[k].pc = "rejected" \/ gen[k].poll.job.status = "failed")
            => /\ gen[k].pc = "rejected"
               /\ gen[k].onErrors = 1
               /\ gen[k].frames = <<>>
               /\ ~gen[k].complete

\* C13: when no generate and no regenerateFrame is in flight and no cleanup
\* timer is pending, isGenerating is false and generationProgress is null.
NeverStuckGenerating ==
    ((\A k \in 1..MaxGen : ~InFlight(gen[k])) /\ ~InFlight(regen) /\ timers = 0)
        => (~isGenerating /\ generationProgress = Null)

NeverStuckGeneratingWitness ==
    /\ gen[1].pc \in {"resolved", "rejected"}
    /\ regen.pc = "resolved"
    /\ \A k \in 1..MaxGen : ~InFlight(gen[k])
    /\ timers = 0
    /\ ~isGenerating
    /\ generationProgress = Null

\* C14: while a generate is requesting or polling, isGenerating is true.
GeneratingWhileInFlight ==
    (\E k \in 1..MaxGen : Started(gen[k])) => isGenerating

\* C15: within one generate, each progress record written has a step not
\* smaller than the step of the record it replaces.
ProgressStepsNonDecreasing ==
    [][(budget' = budget /\ generationProgress # Null /\ generationProgress' # Null)
       => generationProgress'.step >= generationProgress.step]_vars

\* C16: a non-null generationProgress has 1 <= step <= totalSteps.
ProgressStepInRange ==
    generationProgress # Null
        => (1 <= generationProgress.step
            /\ generationProgress.step <= generationProgress.totalSteps)

\* C17: a generate started in demo mode sends no request at any time and
\* always resolves.
DemoGenerateOffline ==
    \A k \in 1..MaxGen :
        gen[k].demo => /\ gen[k].createReqs = 0
                       /\ gen[k].poll = NoPoll
                       /\ gen[k].pc \in {"demoStep", "resolved"}
                       /\ gen[k].onErrors = 0

DemoGenerateResolves ==
    /\ []DemoGenerateOffline
    /\ \A k \in 1..MaxGen :
          (gen[k].demo /\ gen[k].pc = "demoStep") ~> (gen[k].pc = "resolved")

DemoGenerateResolvesWitness ==
    /\ gen[1].demo
    /\ gen[1].pc = "resolved"
    /\ gen[1].complete
    /\ gen[1].params = LowParams

\* C18: a demo-mode generate resolves to 6 frames, each with fov in
\* [24,120], lighting in [0,100] and hdrBloom in [0,100], the first with a
\* non-empty notes string.
DemoFramesWithinRanges ==
    \A k \in 1..MaxGen :
        (gen[k].demo /\ gen[k].pc = "resolved")
            => /\ Len(gen[k].frames) = 6
               /\ \A i \in 1..Len(gen[k].frames) :
                     /\ gen[k].frames[i].params.fov \in 24..120
                     /\ gen[k].frames[i].params.lighting \in 0..100
                     /\ gen[k].frames[i].params.hdrBloom \in 0..100
               /\ gen[k].frames[1].notes \notin {Undefined, ""}

DemoFramesWithinRangesWitness ==
    /\ gen[1].demo
    /\ gen[1].pc = "resolved"
    /\ gen[1].params = HighParams
    /\ \E i \in 1..Len(gen[1].frames) : gen[1].frames[i].params.fov = 120
    /\ \E i \in 1..Len(gen[1].frames) : gen[1].frames[i].params.hdrBloom = 100

\* C19: a reload keeps demoMode and projects and leaves currentProject and
\* selectedFrameId null, isGenerating false and generationProgress null.
ReloadRestoresPersisted ==
    [][(last'.op = "reload" /\ budget' # budget)
       => /\ demoMode' = demoMode
          /\ projects' = projects
          /\ currentProject' = Null
          /\ selectedFrameId' = NullId
          /\ isGenerating' = FALSE
          /\ generationProgress' = Null]_vars

ReloadRestoresPersistedWitness ==
    /\ last.op = "reload"
    /\ last.ret # Null
    /\ last.selected # NullId
    /\ demoMode
    /\ projects # <<>>
    /\ currentProject = Null
    /\ selectedFrameId = NullId

\* C20: reorderFrames called with the frame list of the current project
\* leaves that list as it was in currentProject and in every projects entry
\* with its id.
ReorderUnchangedKeepsFrames ==
    [][(last'.op = "reorderFramesUnchanged" /\ budget' # budget)
       => /\ currentProject'.frames = currentProject.frames
          /\ Len(projects') = Len(projects)
          /\ \A i \in 1..Len(projects) :
                projects[i].id = currentProject.id
                    => projects'[i].frames = projects[i].frames]_vars

\* C21: with no current project, addFrame, updateFrame, deleteFrame and
\* reorderFrames leave projects, currentProject, selectedFrameId, demoMode and
\* the generation state as they were.
NoProjectFrameOpsAreNoOps ==
    [][(last'.op \in FrameOps /\ budget' # budget /\ currentProject = Null)
       => UNCHANGED <<projects, currentProject, selectedFrameId, demoMode,
                      isGenerating, generationProgress>>]_vars

NoProjectFrameOpsWitness ==
    /\ last.op = "reorderFrames"
    /\ currentProject = Null
    /\ projects # <<>>
    /\ selectedFrameId # NullId

\* C22: updateProject(p) replaces the entries with id p.id by p and makes p
\* the current project exactly when the current project has id p.id;
\* deleteProject(id) removes the entries with that id and clears the current
\* project exactly when it has that id; other entries stay as they were.
ProjectOpsContract ==
    [][/\ (last'.op = "updateProject" /\ budget' # budget)
          => /\ Len(projects') = Len(projects)
             /\ \A i \in 1..Len(projects) :
                   projects'[i] = IF projects[i].id = last'.arg
                                  THEN last'.ret ELSE projects[i]
             /\ currentProject' =
                   IF currentProject # Null /\ currentProject.id = last'.arg
                   THEN last'.ret ELSE currentProject
       /\ (last'.op = "deleteProject" /\ budget' # budget)
          => /\ projects' = SelectSeq(projects, LAMBDA q : q.id # last'.arg)
             /\ currentProject' =
                   IF currentProject # Null /\ currentProject.id = last'.arg
                   THEN Null ELSE currentProject]_vars

ProjectOpsWitness ==
    /\ last.op = "updateProject"
    /\ currentProject = last.ret
    /\ currentProject.name = "Renamed"
    /\ \E i \in 1..Len(projects) : projects[i] = last.ret
    /\ \E i \in 1..Len(projects) : projects[i].id # last.arg

\* C23: when the wait of a demo-mode regenerateFrame is over and the current
\* project still holds the frame, the frame written is the copy read at the
\* start with the new params and timestamp, whatever updateFrame wrote in
\* between (its notes are those of the copy), and the invocation resolves
\* without error.
StaleRegenerateOverwrites ==
    [][(/\ regen.pc = "waiting" /\ regen'.pc # "waiting"
        /\ FindFrame(currentProject, regen.frame.id) # Null)
       => /\ regen'.pc = "resolved"
          /\ regen'.error = ""
          /\ FindFrame(currentProject', regen.frame.id) =
                [regen.frame EXCEPT !.params = regen.params, !.timestamp = now]
          /\ FindFrame(currentProject', regen.frame.id).notes = regen.frame.notes]_vars

StaleRegenerateOverwritesWitness ==
    /\ regen.pc = "resolved"
    /\ regen.demo
    /\ last.op = "flow"
    /\ last.ret # Null
    /\ last.ret.notes = "note"
    /\ regen.frame.notes # "note"
    /\ FindFrame(currentProject, regen.frame.id) # Null
    /\ FindFrame(currentProject, regen.frame.id).notes = regen.frame.notes

\* C24: a remote generate has issued exactly one job-creation request; when
\* that request fails the invocation is rejected and has issued no job-status
\* request; when a job-status request fails (no job was read) the loop counts
\* one attempt and the invocation is still polling, and the wait that follows
\* leads to the next job-status request while attempts remain.
CreationFailsStatusRetries ==
    [][\A k \in 1..MaxGen :
          /\ (~gen'[k].demo /\ gen'[k].pc # "idle") => gen'[k].createReqs = 1
          /\ (gen[k].pc = "creating" /\ gen'[k] # gen[k])
                => IF last'.arg \in {"create-net-error", "create-not-ok"}
                   THEN /\ gen'[k].pc = "rejected"
                        /\ gen'[k].poll = NoPoll
                   ELSE /\ gen'[k].pc = "polling"
                        /\ gen'[k].poll.statusReqs = 1
          /\ (/\ gen[k].poll.pc = "polling" /\ gen'[k] # gen[k]
              /\ gen'[k].poll.job.status = "none")
                => /\ gen'[k].pc = "polling"
                   /\ gen'[k].poll.pc = "caught"
                   /\ gen'[k].poll.attempts = gen[k].poll.attempts + 1
                   /\ gen'[k].poll.statusReqs = gen[k].poll.statusReqs
                   /\ gen'[k].onErrors = 0
          /\ (/\ gen[k].poll.pc = "caught" /\ gen'[k] # gen[k]
              /\ gen[k].poll.attempts < maxAttempts)
                => /\ gen'[k].pc = "polling"
                   /\ gen'[k].poll.pc = "polling"
                   /\ gen'[k].poll.statusReqs = gen[k].poll.statusReqs + 1]_vars

CreationFailsStatusRetriesWitness ==
    /\ gen[1].pc = "polling"
    /\ gen[1].createReqs = 1
    /\ gen[1].poll.pc = "caught"
    /\ gen[1].poll.job.status = "none"
    /\ gen[1].poll.attempts = 2
    /\ gen[1].poll.statusReqs = 2

\* the value a payload carries for a field, or the fallback when it carries none
Present(a, b) == IF a = Missing THEN b ELSE a

\* C26: the frames a polling loop returns carry, for each numeric param, the
\* value present in the payload under either name (0 included) and the
\* fallback only when the payload has no such field.
NormalizedParamsFaithful ==
    \A k \in 1..MaxGen :
        gen[k].poll.pc = "returned"
            => \/ gen[k].poll.frames = <<>>
               \/ \E fs \in RemoteFrameLists :
                     /\ Len(fs) = Len(gen[k].poll.frames)
                     /\ \A i \in 1..Len(fs) :
                           LET rp == fs[i].params
                               np == gen[k].poll.frames[i].params
                           IN  /\ np.fov = Present(rp.fov, 50)
                               /\ np.lighting = Present(rp.lighting, 60)
                               /\ np.hdrBloom =
                                     Present(rp.hdr_bloom, Present(rp.hdrBloom, 30))
                               /\ np.colorTemp =
                                     Present(rp.color_temp, Present(rp.colorTemp, 5500))
                               /\ np.contrast = Present(rp.contrast, 50)

\* C28: selectedFrameId is null or the id of a frame of the current project.
SelectionInCurrentProject ==
    selectedFrameId # NullId => FindFrame(currentProject, selectedFrameId) # Null

\* the edited texts that are not JSON
Unparsable == {"{\"fov\": 90,", "fov = 90"}

\* C27: saving an edit whose text JSON.parse rejects calls no updateFrame:
\* projects, the current project (updatedAt included), the selected frame and
\* the selection are as before, and the validation error is set.
UnparsableEditNotCommitted ==
    [][(/\ last'.op = "handleSaveEdit" /\ budget' # budget
        /\ last'.arg \in Unparsable)
       => /\ UNCHANGED <<projects, currentProject, selectedFrameId>>
          /\ FindFrame(currentProject', selectedFrameId') =
                FindFrame(currentProject, selectedFrameId)
          /\ last'.ret = InvalidJsonError]_vars

UnparsableEditWitness ==
    /\ last.op = "handleSaveEdit"
    /\ last.arg = "fov = 90"
    /\ last.ret = InvalidJsonError
    /\ FindFrame(currentProject, selectedFrameId) # Null
    /\ now > currentProject.updatedAt

\* C25: when the job-creation response is accepted while a project is open,
\* a response with a project_id leaves currentProject and the entries with its
\* id as they were but for backendId = project_id, and a response without one
\* leaves currentProject and projects as they were.
BackendIdMergeKeepsProject ==
    [][\A k \in 1..MaxGen :
          (gen[k].pc = "creating" /\ gen'[k].pc = "polling" /\ currentProject # Null)
             => IF last'.arg = "create-ok-project-id"
                THEN /\ currentProject' = [currentProject EXCEPT !.backendId = "backend-1"]
                     /\ Len(projects') = Len(projects)
                     /\ \A i \in 1..Len(projects) :
                           projects'[i] =
                              IF projects[i].id = currentProject.id
                              THEN [projects[i] EXCEPT !.backendId = "backend-1"]
                              ELSE projects[i]
                ELSE UNCHANGED <<currentProject, projects>>]_vars

\* C29: when a generate resolves, the entries of the project that was open
\* when it started have the produced frames appended, and the frame list of
\* every other entry is as it was.
FramesGoToStartingProject ==
    [][\A k \in 1..MaxGen :
          (Started(gen[k]) /\ gen'[k].pc = "resolved")
             => /\ Len(projects') = Len(projects)
                /\ \A i \in 1..Len(projects) :
                      projects'[i].frames =
                         IF projects[i].id = gen[k].startedIn
                         THEN projects[i].frames \o gen'[k].frames
                         ELSE projects[i].frames]_vars

\* C30: after deleteProject has removed the current project while a generate
\* is in flight, a step of that generate leaves currentProject null.
DeletedProjectStaysClosed ==
    [][(/\ last.op = "deleteProject" /\ currentProject = Null
        /\ \E k \in 1..MaxGen : InFlight(gen[k])
        /\ last'.op = "flow" /\ budget' = budget)
       => currentProject' = Null]_vars

====
